---- MODULE Spec2Model ----
(***************************************************************************)
(* drivers/syslog/syslog_filechannel.c: the file-backed SYSLOG channel.    *)
(*                                                                         *)
(* syslog_file_channel(devpath) is modelled statement by statement, one    *)
(* action per statement group, for every task that calls it; log_rotate()  *)
(* is an operator on the file system.  Three specifications are given:     *)
(*   Spec      one task calling syslog_file_channel() again and again,     *)
(*   RotSpec   log_rotate() applied to every file-system state,            *)
(*   ConcSpec  several tasks on one CPU under the pre-emption lock.        *)
(***************************************************************************)
EXTENDS Integers, Sequences, FiniteSets

\* Largest number of device handles syslog_dev_initialize() can hand out
\* before its allocation fails.
MaxHandles == 2

\* Largest file size (in records) a file starts with.
MaxSize == 2

\* Largest pre-emption lock count a task holds before it calls
\* syslog_file_channel().
MaxBaseLock == 1

\* The rotation threshold (a Kconfig value, scaled down).
CONFIG_SYSLOG_FILE_SIZE_LIMIT == 1

\* Saturation of the per-handle count of syslog_dev_uninitialize() calls:
\* UninitCap stands for "twice or more".
UninitCap == 2

NULL == 0

Tasks == {"t1", "t2"}

\* The task that makes the calls in the sequential specification.
Caller == "t1"

\* No task holds the CPU (the idle loop runs).
IDLE == "idle"

Paths == {"/log", "/alt"}

VARIABLES
  g_syslog_file_channel,  \* the static handle of line 55 (NULL or an index of dev)
  g_syslog_channel,       \* the channel the logging subsystem writes to
  dev,                    \* every handle syslog_dev_initialize() returned
  file,                   \* the file at each path
  backup,                 \* the file at each "<path>.0"
  pc,                     \* each task's position in syslog_file_channel()
  devpath,                \* each task's argument
  lockcount,              \* each task's pre-emption lock count
  lockbefore,             \* that count when the task's last call began
  outcome,                \* how the task's last call went
  retval,                 \* what the task's last call returned
  blocked,                \* the task waits inside a file-system call
  cur,                    \* the task holding the CPU
  stale,                  \* a log record was written to a torn-down handle
  rotin                   \* the inputs of the last log_rotate() (RotSpec)

vars == <<g_syslog_file_channel, g_syslog_channel, dev, file, backup, pc,
          devpath, lockcount, lockbefore, outcome, retval, blocked, cur,
          stale, rotin>>

----------------------------------------------------------------------------
\* Files

NoFile == [exists |-> FALSE, tag |-> "", size |-> 0]

RegularFile(tag, size) == [exists |-> TRUE, tag |-> tag, size |-> size]

\* What open(O_WRONLY | O_CREAT | O_APPEND) creates.
NewFile == RegularFile("new", 0)

\* What the system calls of log_rotate() can do: open, fstat, malloc, remove
\* and rename succeed or fail; st_size is what is read out of the stat buffer
\* when fstat() failed and left it unwritten (and is not used otherwise).
Env == {e \in [open : BOOLEAN, fstat : BOOLEAN, st_size : 0..MaxSize,
               malloc : BOOLEAN, remove : BOOLEAN, rename : BOOLEAN] :
          e.fstat => e.st_size = 0}

\* log_rotate(log_file) on the file system <<f, b>> (the files at the paths
\* and at their ".0" names), as the record of both afterwards.
log_rotate_le(f, b, log_file, env) ==
  LET unchanged == [file |-> f, backup |-> b]
      size == IF env.fstat THEN f[log_file].size ELSE env.st_size
      b1 == IF b[log_file].exists /\ env.remove
              THEN [b EXCEPT ![log_file] = NoFile] ELSE b
  IN  IF ~f[log_file].exists \/ ~env.open THEN unchanged
      ELSE IF size <= CONFIG_SYSLOG_FILE_SIZE_LIMIT THEN unchanged
      ELSE IF ~env.malloc THEN unchanged
      ELSE IF env.rename
             THEN [file |-> [f EXCEPT ![log_file] = NoFile],
                   backup |-> [b1 EXCEPT ![log_file] = f[log_file]]]
             ELSE [file |-> f, backup |-> b1]

log_rotate(f, b, log_file, env) ==
  LET unchanged == [file |-> f, backup |-> b]
      \* fd = open(log_file, O_RDONLY): fails when there is no such file, or
      \* for a reason of the environment's.
      fd_ok == f[log_file].exists /\ env.open
      \* fstat(fd, &f_stat), its result ignored; size = f_stat.st_size reads
      \* the stat buffer, which a failed fstat() left unwritten.
      size == IF env.fstat THEN f[log_file].size ELSE env.st_size
      \* if (access(backup_file, F_OK) == 0) remove(backup_file);
      b1 == IF b[log_file].exists /\ env.remove
              THEN [b EXCEPT ![log_file] = NoFile] ELSE b
  IN  IF ~fd_ok THEN unchanged
      ELSE IF size < CONFIG_SYSLOG_FILE_SIZE_LIMIT THEN unchanged
      ELSE IF ~env.malloc THEN unchanged
      \* rename(log_file, backup_file), its result ignored; a rename that
      \* succeeds replaces whatever is at the new name.
      ELSE IF env.rename
             THEN [file |-> [f EXCEPT ![log_file] = NoFile],
                   backup |-> [b1 EXCEPT ![log_file] = f[log_file]]]
             ELSE [file |-> f, backup |-> b1]

----------------------------------------------------------------------------
\* The logging subsystem's device channels

\* syslog_dev_uninitialize(h): the handle is closed and freed.  The count
\* saturates at UninitCap.
syslog_dev_uninitialize(d, h) ==
  [d EXCEPT ![h].uninits = IF @ < UninitCap THEN @ + 1 ELSE @]

\* The handle a successful syslog_dev_initialize(path, ...) returns.
NewDev(path) == [path |-> path, uninits |-> 0, bound |-> FALSE]

Handles == 1..Len(dev)

Live(h) == dev[h].uninits = 0

----------------------------------------------------------------------------
\* The scheduler: one CPU; a task runs when it holds the CPU and does not
\* wait inside a system call.

Running(t) == cur = t /\ ~blocked[t]

sched_lock(t) == [lockcount EXCEPT ![t] = @ + 1]

sched_unlock(t) == [lockcount EXCEPT ![t] = @ - 1]

\* Positions at which syslog_file_channel() is inside a synchronous
\* file-system call: log_rotate()'s open/fstat/remove/rename, and the open
\* of syslog_dev_initialize().
BlockingPcs == {"rotate", "devinit"}

sched == <<blocked, cur>>

----------------------------------------------------------------------------
\* syslog_file_channel(devpath), task t

\* Entry without the lock.
Call_nolock(t, path) ==
  /\ Running(t)
  /\ pc[t] = "idle"
  /\ pc' = [pc EXCEPT ![t] = "teardown"]
  /\ devpath' = [devpath EXCEPT ![t] = path]
  /\ lockbefore' = [lockbefore EXCEPT ![t] = lockcount[t]]
  /\ outcome' = [outcome EXCEPT ![t] = "none"]
  /\ retval' = [retval EXCEPT ![t] = NULL]
  /\ UNCHANGED <<g_syslog_file_channel, g_syslog_channel, dev, file, backup,
                 lockcount, sched, stale, rotin>>

\* The call and sched_lock().
Call(t, path) ==
  /\ Running(t)
  /\ pc[t] = "idle"
  /\ pc' = [pc EXCEPT ![t] = "teardown"]
  /\ devpath' = [devpath EXCEPT ![t] = path]
  /\ lockbefore' = [lockbefore EXCEPT ![t] = lockcount[t]]
  /\ lockcount' = sched_lock(t)
  /\ outcome' = [outcome EXCEPT ![t] = "none"]
  /\ retval' = [retval EXCEPT ![t] = NULL]
  /\ UNCHANGED <<g_syslog_file_channel, g_syslog_channel, dev, file, backup,
                 sched, stale, rotin>>

\* The prior handle is kept open.
Teardown_skip(t) ==
  /\ Running(t)
  /\ pc[t] = "teardown"
  /\ pc' = [pc EXCEPT ![t] = "rotate"]
  /\ UNCHANGED <<g_syslog_file_channel, g_syslog_channel, dev, file, backup,
                 devpath, lockcount, lockbefore, outcome, retval, sched,
                 stale, rotin>>

\* if (g_syslog_file_channel != NULL) syslog_dev_uninitialize(...);
Teardown(t) ==
  /\ Running(t)
  /\ pc[t] = "teardown"
  /\ dev' = IF g_syslog_file_channel # NULL
              THEN syslog_dev_uninitialize(dev, g_syslog_file_channel)
              ELSE dev
  /\ pc' = [pc EXCEPT ![t] = "rotate"]
  /\ UNCHANGED <<g_syslog_file_channel, g_syslog_channel, file, backup,
                 devpath, lockcount, lockbefore, outcome, retval, sched,
                 stale, rotin>>

\* log_rotate(devpath);
Rotate(t) ==
  /\ Running(t)
  /\ pc[t] = "rotate"
  /\ \E r \in {log_rotate(file, backup, devpath[t], env) : env \in Env} :
       file' = r.file /\ backup' = r.backup
  /\ pc' = [pc EXCEPT ![t] = "devinit"]
  /\ UNCHANGED <<g_syslog_file_channel, g_syslog_channel, dev, devpath,
                 lockcount, lockbefore, outcome, retval, sched, stale, rotin>>

\* The failure path returns without releasing the lock.
DevInitFail_nounlock(t) ==
  /\ Running(t)
  /\ pc[t] = "devinit"
  /\ g_syslog_file_channel' = NULL
  /\ outcome' = [outcome EXCEPT ![t] = "devfail"]
  /\ pc' = [pc EXCEPT ![t] = "ret"]
  /\ UNCHANGED <<g_syslog_channel, dev, file, backup, devpath, lockcount,
                 lockbefore, retval, sched, stale, rotin>>

\* The failure path leaves the pointer as it was.
DevInitFail_keep(t) ==
  /\ Running(t)
  /\ pc[t] = "devinit"
  /\ outcome' = [outcome EXCEPT ![t] = "devfail"]
  /\ pc' = [pc EXCEPT ![t] = "unlock"]
  /\ UNCHANGED <<g_syslog_file_channel, g_syslog_channel, dev, file, backup,
                 devpath, lockcount, lockbefore, retval, sched, stale, rotin>>

\* g_syslog_file_channel = syslog_dev_initialize(...) returns NULL;
\* goto errout_with_lock.
DevInitFail(t) ==
  /\ Running(t)
  /\ pc[t] = "devinit"
  /\ g_syslog_file_channel' = NULL
  /\ outcome' = [outcome EXCEPT ![t] = "devfail"]
  /\ pc' = [pc EXCEPT ![t] = "unlock"]
  /\ UNCHANGED <<g_syslog_channel, dev, file, backup, devpath, lockcount,
                 lockbefore, retval, sched, stale, rotin>>

\* g_syslog_file_channel = syslog_dev_initialize(...) returns a handle: the
\* file is opened (created when absent) and a new handle allocated.
DevInitOk(t) ==
  /\ Running(t)
  /\ pc[t] = "devinit"
  /\ Len(dev) < MaxHandles
  /\ dev' = Append(dev, NewDev(devpath[t]))
  /\ g_syslog_file_channel' = Len(dev) + 1
  /\ file' = [file EXCEPT ![devpath[t]] = IF @.exists THEN @ ELSE NewFile]
  /\ pc' = [pc EXCEPT ![t] = "bind"]
  /\ UNCHANGED <<g_syslog_channel, backup, devpath, lockcount, lockbefore,
                 outcome, retval, sched, stale, rotin>>

\* syslog_channel(g_syslog_file_channel) == OK: the logging subsystem now
\* writes to the handle.
BindOk(t) ==
  /\ Running(t)
  /\ pc[t] = "bind"
  /\ g_syslog_channel' = g_syslog_file_channel
  /\ dev' = [dev EXCEPT ![g_syslog_file_channel].bound = TRUE]
  /\ outcome' = [outcome EXCEPT ![t] = "ok"]
  /\ pc' = [pc EXCEPT ![t] = "unlock"]
  /\ UNCHANGED <<g_syslog_file_channel, file, backup, devpath, lockcount,
                 lockbefore, retval, sched, stale, rotin>>

\* The handle is torn down and the pointer kept.
BindFail_keep(t) ==
  /\ Running(t)
  /\ pc[t] = "bind"
  /\ dev' = syslog_dev_uninitialize(dev, g_syslog_file_channel)
  /\ outcome' = [outcome EXCEPT ![t] = "bindfail"]
  /\ pc' = [pc EXCEPT ![t] = "unlock"]
  /\ UNCHANGED <<g_syslog_file_channel, g_syslog_channel, file, backup,
                 devpath, lockcount, lockbefore, retval, sched, stale, rotin>>

\* syslog_channel(g_syslog_file_channel) != OK:
\* syslog_dev_uninitialize(g_syslog_file_channel);
\* g_syslog_file_channel = NULL;
BindFail(t) ==
  /\ Running(t)
  /\ pc[t] = "bind"
  /\ dev' = syslog_dev_uninitialize(dev, g_syslog_file_channel)
  /\ g_syslog_file_channel' = NULL
  /\ outcome' = [outcome EXCEPT ![t] = "bindfail"]
  /\ pc' = [pc EXCEPT ![t] = "unlock"]
  /\ UNCHANGED <<g_syslog_channel, file, backup, devpath, lockcount,
                 lockbefore, retval, sched, stale, rotin>>

\* errout_with_lock: sched_unlock();
Unlock(t) ==
  /\ Running(t)
  /\ pc[t] = "unlock"
  /\ lockcount' = sched_unlock(t)
  /\ pc' = [pc EXCEPT ![t] = "ret"]
  /\ UNCHANGED <<g_syslog_file_channel, g_syslog_channel, dev, file, backup,
                 devpath, lockbefore, outcome, retval, sched, stale, rotin>>

\* return g_syslog_file_channel;
Return(t) ==
  /\ Running(t)
  /\ pc[t] = "ret"
  /\ retval' = [retval EXCEPT ![t] = g_syslog_file_channel]
  /\ pc' = [pc EXCEPT ![t] = "idle"]
  /\ UNCHANGED <<g_syslog_file_channel, g_syslog_channel, dev, file, backup,
                 devpath, lockcount, lockbefore, outcome, sched, stale, rotin>>

\* A task outside syslog_file_channel() writes a log record: it goes to the
\* channel the logging subsystem holds.
Log(t) ==
  /\ Running(t)
  /\ pc[t] = "idle"
  /\ stale' = (stale \/ (g_syslog_channel # NULL /\ ~Live(g_syslog_channel)))
  /\ UNCHANGED <<g_syslog_file_channel, g_syslog_channel, dev, file, backup,
                 pc, devpath, lockcount, lockbefore, outcome, retval, sched,
                 rotin>>

\* Any step of task t, its calls made with the paths of P.
TaskStepOn(t, P) ==
  \/ \E path \in P : Call(t, path)
  \/ Teardown(t)
  \/ Rotate(t)
  \/ DevInitFail(t)
  \/ DevInitOk(t)
  \/ BindOk(t)
  \/ BindFail(t)
  \/ Unlock(t)
  \/ Return(t)
  \/ Log(t)

TaskStep(t) == TaskStepOn(t, Paths)

----------------------------------------------------------------------------
\* One task, call after call

NoRot == [called |-> FALSE, path |-> "/log",
          env |-> [open |-> TRUE, fstat |-> TRUE, st_size |-> 0,
                   malloc |-> TRUE, remove |-> TRUE, rename |-> TRUE],
          file |-> [p \in Paths |-> NoFile],
          backup |-> [p \in Paths |-> NoFile]]

InitCommon ==
  /\ g_syslog_file_channel = NULL
  /\ g_syslog_channel = NULL
  /\ dev = << >>
  /\ pc = [t \in Tasks |-> "idle"]
  /\ devpath = [t \in Tasks |-> "/log"]
  /\ outcome = [t \in Tasks |-> "none"]
  /\ retval = [t \in Tasks |-> NULL]
  /\ blocked = [t \in Tasks |-> FALSE]
  /\ stale = FALSE
  /\ rotin = NoRot

Init ==
  /\ InitCommon
  /\ file \in [Paths -> {NoFile, RegularFile("log", MaxSize)}]
  /\ backup = [p \in Paths |-> NoFile]
  /\ lockcount \in [Tasks -> 0..MaxBaseLock]
  /\ \A t \in Tasks \ {Caller} : lockcount[t] = 0
  /\ lockbefore = lockcount
  /\ cur = Caller

Next == TaskStep(Caller)

Spec == Init /\ [][Next]_vars

----------------------------------------------------------------------------
\* log_rotate() alone, on every file system

\* log_rotate(path) is called once, with the system calls behaving as env
\* says; what it was given is kept in rotin.
RotCall(path, env) ==
  /\ ~rotin.called
  /\ rotin' = [called |-> TRUE, path |-> path, env |-> env,
               file |-> file, backup |-> backup]
  /\ LET r == log_rotate(file, backup, path, env)
     IN  file' = r.file /\ backup' = r.backup
  /\ UNCHANGED <<g_syslog_file_channel, g_syslog_channel, dev, pc, devpath,
                 lockcount, lockbefore, outcome, retval, sched, stale>>

RotInit ==
  /\ InitCommon
  /\ file \in [Paths -> {NoFile} \cup
                        {RegularFile("log", s) : s \in 0..MaxSize}]
  /\ backup \in [Paths -> {NoFile, RegularFile("old", MaxSize)}]
  /\ lockcount = [t \in Tasks |-> 0]
  /\ lockbefore = lockcount
  /\ cur = Caller

RotNext == \E path \in Paths, env \in Env : RotCall(path, env)

RotSpec == RotInit /\ [][RotNext]_vars

----------------------------------------------------------------------------
\* Several tasks on one CPU

\* The task waits inside a file-system call and gives up the CPU, whatever
\* its lock count.
Block(t) ==
  /\ Running(t)
  /\ pc[t] \in BlockingPcs
  /\ blocked' = [blocked EXCEPT ![t] = TRUE]
  /\ cur' = IDLE
  /\ UNCHANGED <<g_syslog_file_channel, g_syslog_channel, dev, file, backup,
                 pc, devpath, lockcount, lockbefore, outcome, retval, stale,
                 rotin>>

\* The file-system call completes: the task is ready to run again.
Wake(t) ==
  /\ blocked[t]
  /\ blocked' = [blocked EXCEPT ![t] = FALSE]
  /\ UNCHANGED <<g_syslog_file_channel, g_syslog_channel, dev, file, backup,
                 pc, devpath, lockcount, lockbefore, outcome, retval, cur,
                 stale, rotin>>

\* The CPU goes to the ready task t: when it is idle, or by pre-empting a
\* task whose lock count is zero.
Switch(t) ==
  /\ cur # t
  /\ ~blocked[t]
  /\ IF cur = IDLE THEN TRUE ELSE lockcount[cur] = 0
  /\ cur' = t
  /\ UNCHANGED <<g_syslog_file_channel, g_syslog_channel, dev, file, backup,
                 pc, devpath, lockcount, lockbefore, outcome, retval, blocked,
                 stale, rotin>>

ConcInit ==
  /\ InitCommon
  /\ file = [p \in Paths |-> NoFile]
  /\ backup = [p \in Paths |-> NoFile]
  /\ lockcount \in [Tasks -> 0..MaxBaseLock]
  /\ lockbefore = lockcount
  /\ cur = IDLE

\* The tasks all configure the same file.
ConcPaths == {"/log"}

ConcNext ==
  \E t \in Tasks :
    \/ TaskStepOn(t, ConcPaths)
    \/ Block(t)
    \/ Wake(t)
    \/ Switch(t)

ConcSpec == ConcInit /\ [][ConcNext]_vars

----------------------------------------------------------------------------
\* Properties of the sequential calls (Spec)

\* No call of the calling task is in progress.
BetweenCalls == pc[Caller] = "idle"

\* A call of the calling task has returned, and no other has begun.
Returned == BetweenCalls /\ outcome[Caller] # "none"

\* C1: after a call in which syslog_dev_initialize() returned NULL, whatever
\* the calls before it, the call has returned NULL, g_syslog_file_channel is
\* NULL, and the channel the logging subsystem writes to is not a channel
\* for the path of that call.
C1_FailedInitLeavesNoChannelForPath ==
  (Returned /\ outcome[Caller] = "devfail") =>
     /\ retval[Caller] = NULL
     /\ g_syslog_file_channel = NULL
     /\ (g_syslog_channel # NULL =>
           dev[g_syslog_channel].path # devpath[Caller])

\* C2: between sequential calls, every handle syslog_dev_initialize() ever
\* returned, other than the one held in g_syslog_file_channel, has been
\* passed to syslog_dev_uninitialize() exactly once, so at most one handle
\* is live.
C2_ReplacedNotLeaked ==
  BetweenCalls =>
     /\ \A h \in Handles :
          h # g_syslog_file_channel => dev[h].uninits = 1
     /\ Cardinality({h \in Handles : Live(h)}) <= 1

\* C2's case: two calls succeeded; the first handle was torn down once and
\* the second is the one held.
C2_Witness ==
  /\ BetweenCalls
  /\ Len(dev) = 2
  /\ g_syslog_file_channel = 2
  /\ dev[1].bound /\ dev[2].bound
  /\ dev[1].uninits = 1
  /\ Live(2)

\* C5: a call returns a non-NULL handle exactly when syslog_dev_initialize()
\* returned a handle and syslog_channel() returned OK for it; on a failure
\* it returns NULL; what it returns is what it left in
\* g_syslog_file_channel, which is NULL after a failure.
C5_ReturnMatchesOutcome ==
  Returned =>
     /\ (retval[Caller] # NULL <=> outcome[Caller] = "ok")
     /\ retval[Caller] = g_syslog_file_channel
     /\ (outcome[Caller] # "ok" => g_syslog_file_channel = NULL)

\* C5's case: a call failed (in syslog_dev_initialize()) after an earlier
\* call had succeeded and left a handle in g_syslog_file_channel.
C5_Witness ==
  /\ Returned
  /\ outcome[Caller] = "devfail"
  /\ Len(dev) >= 1
  /\ dev[1].bound
  /\ retval[Caller] = NULL

\* The handle h was not accepted by syslog_channel(): its binding failed
\* (its call is past the binding).
BindingFailed(h) ==
  /\ ~dev[h].bound
  /\ ~(pc[Caller] = "bind" /\ g_syslog_file_channel = h)

\* C6: a handle whose binding failed has been torn down exactly once and is
\* not held in g_syslog_file_channel, at every point from then on (so no
\* later call tears it down again).
C6_BindFailureTornDownOnce ==
  \A h \in Handles :
    BindingFailed(h) => dev[h].uninits = 1 /\ g_syslog_file_channel # h

\* C6's case: a binding failed, and the next call is past its own teardown.
C6_Witness ==
  /\ Len(dev) >= 1
  /\ BindingFailed(1)
  /\ pc[Caller] = "rotate"
  /\ dev[1].uninits = 1

\* C10: whenever no call is in progress, the channel registered with the
\* logging subsystem is not a handle that has been passed to
\* syslog_dev_uninitialize().
C10_RegisteredChannelIsLive ==
  BetweenCalls => (g_syslog_channel # NULL => Live(g_syslog_channel))

----------------------------------------------------------------------------
\* Properties of log_rotate() (RotSpec)

\* The file system is as it was before the call.
RotUnchanged == file = rotin.file /\ backup = rotin.backup

\* Nothing but the call's own two names has changed.
RotFrame ==
  \A q \in Paths \ {rotin.path} :
    file[q] = rotin.file[q] /\ backup[q] = rotin.backup[q]

\* The file has moved to "<path>.0", replacing what was there.
RotRotated ==
  /\ ~file[rotin.path].exists
  /\ backup[rotin.path] = rotin.file[rotin.path]
  /\ RotFrame

\* The file is where it was; an old backup is gone if remove() succeeded.
RotRenameFailed ==
  /\ file[rotin.path] = rotin.file[rotin.path]
  /\ backup[rotin.path] = IF rotin.env.remove THEN NoFile
                           ELSE rotin.backup[rotin.path]
  /\ RotFrame

\* log_rotate() was called on a file of at least the size limit.
RotAtLimit ==
  /\ rotin.called
  /\ rotin.file[rotin.path].exists
  /\ rotin.file[rotin.path].size >= CONFIG_SYSLOG_FILE_SIZE_LIMIT

C4_BelowLimitUnchanged ==
  (/\ rotin.called
   /\ rotin.file[rotin.path].exists
   /\ rotin.file[rotin.path].size < CONFIG_SYSLOG_FILE_SIZE_LIMIT)
  => RotUnchanged

\* C9: when open(path) fails, or open succeeds and fstat fails, log_rotate()
\* removes and renames nothing: path and "<path>.0" are as they were.
C9_OpenOrStatFailureIsNoOp ==
  (/\ rotin.called
   /\ \/ ~rotin.file[rotin.path].exists
      \/ ~rotin.env.open
      \/ ~rotin.env.fstat)
  => RotUnchanged

----------------------------------------------------------------------------
\* Properties of the tasks on one CPU (ConcSpec)

\* Task t is between the teardown of the prior handle and the binding of the
\* new one (or the clearing of the pointer).
InWindow(t) == pc[t] \in {"rotate", "devinit", "bind"}

\* Task t is between sched_lock() and sched_unlock().
InLocked(t) == pc[t] \in {"teardown", "rotate", "devinit", "bind", "unlock"}

C8_LockBalanced ==
  /\ [](\A t \in Tasks :
          lockcount[t] = lockbefore[t] + (IF InLocked(t) THEN 1 ELSE 0))
  /\ [][g_syslog_file_channel' # g_syslog_file_channel =>
          \E t \in Tasks : /\ cur = t
                           /\ InLocked(t)
                           /\ lockcount[t] > lockbefore[t]]_vars

\* C8's case: a call that failed in syslog_dev_initialize() has returned, by
\* a task that held the lock already, and its count is what it was.
C8_Witness ==
  \E t \in Tasks :
    /\ pc[t] = "idle"
    /\ outcome[t] = "devfail"
    /\ lockbefore[t] = MaxBaseLock
    /\ lockcount[t] = MaxBaseLock

====
